---- MODULE Spec2Model ----
(***************************************************************************)
(* A model of the natural-language-agreements oracle:                      *)
(*   - the LLM client of src/nla.ts (provider registry, arbitrate,         *)
(*     cleanBool),                                                         *)
(*   - the oracle process of src/cli/server/oracle.ts (the version that    *)
(*     loads .env files, lines 290-650): startup, the arbitrateMany        *)
(*     callback, onAfterArbitrate, shutdown,                               *)
(*   - the fulfill command of src/unnamed/part_009 (commit, wait, reveal,  *)
(*     reclaim bond, request arbitration).                                 *)
(* The ledger and the polling loop (arbitrateMany) belong to the external  *)
(* alkahest-ts package; they are modelled from the specification.          *)
(*                                                                         *)
(* Strings are sequences of one-character strings.                         *)
(***************************************************************************)
EXTENDS Integers, Sequences, FiniteSets, TLC

\* ------------------------------------------------------------------------
\* Bounds of the model
\* ------------------------------------------------------------------------

\* fulfillment UIDs the ledger can hold
MaxUids == 2

\* ArbitrationRequested events per fulfillment UID
MaxRequests == 2

\* times the loop may hand one UID to the callback before the model stops counting
MaxDispatch == 2

\* fulfillment attempts (runs of the fulfill command)
MaxAttempts == 2

\* direct ledger calls made outside the fulfill command, per attempt
MaxDirect == 2

\* providers one client registers
MaxProviders == 2

\* collect calls per fulfillment
MaxCollect == 1

Uids == 1..MaxUids

Attempts == 1..MaxAttempts

\* ------------------------------------------------------------------------
\* Strings
\* ------------------------------------------------------------------------

\* the backtick character
BackTick == "backtick"

\* the character U+0000
NUL == "NUL"

UpperAlpha ==
    <<"A","B","C","D","E","F","G","H","I","J","K","L","M",
      "N","O","P","Q","R","S","T","U","V","W","X","Y","Z">>

LowerAlpha ==
    <<"a","b","c","d","e","f","g","h","i","j","k","l","m",
      "n","o","p","q","r","s","t","u","v","w","x","y","z">>

LowerOf == [c \in {UpperAlpha[i] : i \in 1..Len(UpperAlpha)} |->
               LowerAlpha[CHOOSE i \in 1..Len(UpperAlpha) : UpperAlpha[i] = c]]

toLowerChar(c) == IF c \in DOMAIN LowerOf THEN LowerOf[c] ELSE c

toLowerCase(s) == SubSeq([i \in 1..Len(s) |-> toLowerChar(s[i])], 1, Len(s))

isSpace(c) == c \in {" ", "\n", "\t", "\r"}

\* index of the first character of s at or after i that is no white space
RECURSIVE skipSpaces(_, _)
skipSpaces(s, i) ==
    IF i <= Len(s) /\ isSpace(s[i]) THEN skipSpaces(s, i + 1) ELSE i

\* index of the last character of s at or before i that is no white space
RECURSIVE skipSpacesBack(_, _)
skipSpacesBack(s, i) ==
    IF i >= 1 /\ isSpace(s[i]) THEN skipSpacesBack(s, i - 1) ELSE i

trimStart(s) == SubSeq(s, skipSpaces(s, 1), Len(s))

trimEnd(s) == SubSeq(s, 1, skipSpacesBack(s, Len(s)))

trim(s) == trimEnd(trimStart(s))

\* s starts with p at position i
startsWithAt(s, p, i) ==
    /\ i + Len(p) - 1 <= Len(s)
    /\ \A k \in 1..Len(p) : s[i + k - 1] = p[k]

includes(s, sub) == \E i \in 1..(Len(s) + 1) : startsWithAt(s, sub, i)

\* the replacement text of String.prototype.replace from position j of by:
\* $$ is a dollar sign, $& the matched text, $ with a backtick the text
\* before the match, $' the text after it; any other $ stands for itself
\* (the patterns have no groups)
RECURSIVE expandFrom(_, _, _, _, _)
expandFrom(by, j, matched, before, following) ==
    IF j > Len(by) THEN <<>>
    ELSE IF by[j] = "$" /\ j < Len(by) /\ by[j + 1] = "$"
         THEN <<"$">> \o expandFrom(by, j + 2, matched, before, following)
    ELSE IF by[j] = "$" /\ j < Len(by) /\ by[j + 1] = "&"
         THEN matched \o expandFrom(by, j + 2, matched, before, following)
    ELSE IF by[j] = "$" /\ j < Len(by) /\ by[j + 1] = BackTick
         THEN before \o expandFrom(by, j + 2, matched, before, following)
    ELSE IF by[j] = "$" /\ j < Len(by) /\ by[j + 1] = "'"
         THEN following \o expandFrom(by, j + 2, matched, before, following)
    ELSE <<by[j]>> \o expandFrom(by, j + 1, matched, before, following)

\* String.prototype.replace(/pat/g, by) for a literal pattern pat: the text
\* of s from position i on, with every occurrence of pat replaced
RECURSIVE replaceFrom(_, _, _, _)
replaceFrom(s, pat, by, i) ==
    IF i > Len(s) THEN <<>>
    ELSE IF startsWithAt(s, pat, i)
         THEN expandFrom(by, 1, pat, SubSeq(s, 1, i - 1),
                         SubSeq(s, i + Len(pat), Len(s)))
                 \o replaceFrom(s, pat, by, i + Len(pat))
         ELSE <<s[i]>> \o replaceFrom(s, pat, by, i + 1)

replaceAll(s, pat, by) == replaceFrom(s, pat, by, 1)

\* ------------------------------------------------------------------------
\* src/nla.ts: cleanBool
\* ------------------------------------------------------------------------

\* index of the first c in s at or after i, or Len(s) + 1
RECURSIVE indexFrom(_, _, _)
indexFrom(s, c, i) ==
    IF i > Len(s) THEN Len(s) + 1
    ELSE IF s[i] = c THEN i ELSE indexFrom(s, c, i + 1)

\* t.replace(/<\/?[^>]+(>|$)/g, ""): a "<" followed by at least one character
\* other than ">" is removed up to and including the next ">" (or to the end)
RECURSIVE stripTagsFrom(_, _)
stripTagsFrom(s, i) ==
    IF i > Len(s) THEN <<>>
    ELSE IF s[i] = "<" /\ i + 1 <= Len(s) /\ s[i + 1] # ">"
         THEN stripTagsFrom(s, indexFrom(s, ">", i + 1) + 1)
         ELSE <<s[i]>> \o stripTagsFrom(s, i + 1)

stripTags(s) == stripTagsFrom(s, 1)

Fence == <<BackTick, BackTick, BackTick>>

\* first position >= i where a fence starts, or 0
RECURSIVE fenceFrom(_, _)
fenceFrom(s, i) ==
    IF i + 2 > Len(s) THEN 0
    ELSE IF startsWithAt(s, Fence, i) THEN i ELSE fenceFrom(s, i + 1)

\* t.replace(/(3 backticks)[\s\S]*?(3 backticks)/g, ""): a fence is removed
\* up to and including the next fence
RECURSIVE stripFencesFrom(_, _)
stripFencesFrom(s, i) ==
    IF i > Len(s) THEN <<>>
    ELSE IF startsWithAt(s, Fence, i) /\ fenceFrom(s, i + 3) # 0
         THEN stripFencesFrom(s, fenceFrom(s, i + 3) + 3)
         ELSE <<s[i]>> \o stripFencesFrom(s, i + 1)

stripFences(s) == stripFencesFrom(s, 1)

ResultPrefix == <<"r","e","s","u","l","t",":">>

AnswerPrefix == <<"a","n","s","w","e","r",":">>

\* t.replace(/^(result:|answer:)\s*/g, "")
stripPrefix(s) ==
    IF startsWithAt(s, ResultPrefix, 1)
    THEN trimStart(SubSeq(s, Len(ResultPrefix) + 1, Len(s)))
    ELSE IF startsWithAt(s, AnswerPrefix, 1)
         THEN trimStart(SubSeq(s, Len(AnswerPrefix) + 1, Len(s)))
         ELSE s

\* a plausible slip: cleanBool without the tag stripping
cleanBoolKeepTags(raw) ==
    LET t0 == toLowerCase(trim(raw))
        t2 == trim(stripFences(t0))
    IN  trim(stripPrefix(t2))

cleanBool(raw) ==
    LET t0 == toLowerCase(trim(raw))
        t1 == trim(stripTags(t0))
        t2 == trim(stripFences(t1))
    IN  trim(stripPrefix(t2))

TrueText == <<"t","r","u","e">>

FalseText == <<"f","a","l","s","e">>

\* ------------------------------------------------------------------------
\* src/nla.ts: the LLM client
\* ------------------------------------------------------------------------

OpenAI == <<"O","p","e","n","A","I">>

Anthropic == <<"A","n","t","h","r","o","p","i","c">>

OpenRouter == <<"O","p","e","n","R","o","u","t","e","r">>

Undefined == [kind |-> "undefined"]

NoneRec == [kind |-> "none"]

LLMDemand(p, m, t, d) ==
    [arbitrationProvider |-> p, arbitrationModel |-> m,
     arbitrationPrompt |-> t, demand |-> d]

\* a plausible slip: only "the registered name contains the wanted name"
providerMatchesOneWay(provider, demand) ==
    \E name \in {toLowerCase(provider.providerName)},
       wanted \in {toLowerCase(demand.arbitrationProvider)} :
        includes(name, wanted)

\* the predicate of providers.find in arbitrate
providerMatches(provider, demand) ==
    \E name \in {toLowerCase(provider.providerName)},
       wanted \in {toLowerCase(demand.arbitrationProvider)} :
        includes(name, wanted) \/ includes(wanted, name)

\* this.providers.find(p => ...): the index of the first provider at or
\* after i that matches, 0 when there is none
RECURSIVE findProvider(_, _, _)
findProvider(provs, demand, i) ==
    IF i > Len(provs) THEN 0
    ELSE IF providerMatches(provs[i], demand) THEN i
    ELSE findProvider(provs, demand, i + 1)

\* a plausible slip: getProvider with the test of arbitrate
getProviderFuzzy(provs, providerName, i) ==
    LET found == findProvider(provs, [arbitrationProvider |-> providerName], i)
    IN  IF found = 0 THEN Undefined ELSE provs[found]

\* providers.find(p => p.providerName.toLowerCase() === providerName.toLowerCase()),
\* looking from index i on; undefined when there is none
RECURSIVE getProvider(_, _, _)
getProvider(provs, providerName, i) ==
    IF i > Len(provs) THEN Undefined
    ELSE IF \E name \in {toLowerCase(provs[i].providerName)},
               wanted \in {toLowerCase(providerName)} : name = wanted
    THEN provs[i]
    ELSE getProvider(provs, providerName, i + 1)

\* a plausible slip: a built-in OpenAI provider when none is registered
selectProviderOrDefault(provs, demand) ==
    LET found == findProvider(provs, demand, 1)
    IN  IF found # 0 THEN provs[found]
        ELSE IF Len(provs) > 0 THEN provs[1]
        ELSE [providerName |-> OpenAI]

\* const selectedProvider = matchingProvider || providers[0]
selectProvider(provs, demand) ==
    LET found == findProvider(provs, demand, 1)
    IN  IF found # 0 THEN provs[found]
        ELSE IF Len(provs) > 0 THEN provs[1]
        ELSE Undefined

DemandPlaceholder == <<"{","{","d","e","m","a","n","d","}","}">>

ObligationPlaceholder == <<"{","{","o","b","l","i","g","a","t","i","o","n","}","}">>

renderPrompt(demand, obligation) ==
    CHOOSE promptTemplate \in
        {replaceAll(t, ObligationPlaceholder, obligation) :
            t \in {replaceAll(demand.arbitrationPrompt, DemandPlaceholder, demand.demand)}} :
        TRUE

\* the fixed system instruction and the fixed tail of the user prompt
SystemPrompt == <<"SYSTEM: answer only true or false">>

UserPromptTail == <<"\n", "Based on the above ... Answer ONLY with true or false">>

\* the if / else if chain on providerName
familyOf(n) ==
    IF n = toLowerCase(OpenAI) \/ includes(n, <<"o","p","e","n","a","i">>)
    THEN "openai"
    ELSE IF \/ n = toLowerCase(Anthropic)
            \/ includes(n, <<"a","n","t","h","r","o","p","i","c">>)
            \/ includes(n, <<"c","l","a","u","d","e">>)
    THEN "anthropic"
    ELSE IF n = toLowerCase(OpenRouter)
            \/ includes(n, <<"o","p","e","n","r","o","u","t","e","r">>)
    THEN "openrouter"
    ELSE "unsupported"

\* const providerName = selectedProvider.providerName.toLowerCase()
backendFamily(name) ==
    CHOOSE family \in {familyOf(providerName) : providerName \in {toLowerCase(name)}} : TRUE

\* catch (error) { throw new Error(`LLM arbitration failed: ${error}`) }
arbitrationFailed(cause) ==
    [kind |-> "throw", error |-> "LLM arbitration failed", cause |-> cause]

\* arbitrate up to its await of generateText: either it throws before any
\* request, or it sends one request to the selected provider
requestVia(selected, demand, obligation) ==
    IF selected = Undefined
    THEN arbitrationFailed("No LLM provider available")
    ELSE IF backendFamily(selected.providerName) = "unsupported"
    THEN arbitrationFailed("Unsupported provider")
    ELSE [kind |-> "request",
          request |-> [family |-> backendFamily(selected.providerName),
                       provider |-> selected.providerName,
                       model |-> demand.arbitrationModel,
                       system |-> SystemPrompt,
                       prompt |-> renderPrompt(demand, obligation) \o UserPromptTail]]

\* a plausible slip: the request goes to the first provider, not the selected one
arbitrateRequestFirst(provs, demand, obligation) ==
    CHOOSE r \in {requestVia(selectedProvider, demand, obligation) :
                     selectedProvider \in {IF Len(provs) > 0 THEN provs[1] ELSE Undefined}} : TRUE

\* arbitrate from its start to its await of generateText, or to its throw
arbitrateRequest(provs, demand, obligation) ==
    CHOOSE r \in {requestVia(selectedProvider, demand, obligation) :
                     selectedProvider \in {selectProvider(provs, demand)}} : TRUE

\* a plausible slip: a failed backend call is reported as a rejection
arbitrateResultSwallow(outcome) ==
    IF outcome.kind = "reply"
    THEN [kind |-> "return", value |-> (cleanBool(outcome.text) = TrueText)]
    ELSE [kind |-> "return", value |-> FALSE]

\* arbitrate after generateText settled: the verdict, or the wrapped error
arbitrateResult(outcome) ==
    IF outcome.kind = "reply"
    THEN [kind |-> "return", value |-> (cleanBool(outcome.text) = TrueText)]
    ELSE arbitrationFailed(outcome.cause)

\* ------------------------------------------------------------------------
\* src/clients/nla.ts: the older LLM client
\* ------------------------------------------------------------------------

\* arbitrate of src/clients/nla.ts up to its await of generateText: it throws
\* without a provider, sends one request when the selected provider is named
\* openai, and returns false for every other provider
legacyRequestVia(selected, demand, obligation) ==
    IF selected = Undefined
    THEN arbitrationFailed("No LLM provider available")
    ELSE IF \E providerName \in {toLowerCase(selected.providerName)} :
                providerName = <<"o","p","e","n","a","i">>
    THEN [kind |-> "request",
          request |-> [family |-> "openai",
                       provider |-> selected.providerName,
                       model |-> demand.arbitrationModel,
                       system |-> SystemPrompt,
                       prompt |-> renderPrompt(demand, obligation) \o UserPromptTail]]
    ELSE [kind |-> "return", value |-> FALSE]

\* const cleanedResponse = text.trim().toLowerCase(); return cleanedResponse === 'true'
legacyResult(outcome) ==
    IF outcome.kind = "reply"
    THEN [kind |-> "return", value |-> (toLowerCase(trim(outcome.text)) = TrueText)]
    ELSE arbitrationFailed(outcome.cause)

\* ------------------------------------------------------------------------
\* ABI encoding (encodeAbiParameters / decodeAbiParameters of viem)
\* Bytes are numbers 0..255, byte strings are sequences of bytes, positions
\* count from 0.
\* ------------------------------------------------------------------------

\* the characters U+0000 .. U+007F, by code
Ascii ==
    <<
      NUL, "x01", "x02", "x03", "x04", "x05", "x06", "x07",
      "x08", "\t", "\n", "x0B", "x0C", "\r", "x0E", "x0F",
      "x10", "x11", "x12", "x13", "x14", "x15", "x16", "x17",
      "x18", "x19", "x1A", "x1B", "x1C", "x1D", "x1E", "x1F",
      " ", "!", "\"", "#", "$", "%", "&", "'",
      "(", ")", "*", "+", ",", "-", ".", "/",
      "0", "1", "2", "3", "4", "5", "6", "7",
      "8", "9", ":", ";", "<", "=", ">", "?",
      "@", "A", "B", "C", "D", "E", "F", "G",
      "H", "I", "J", "K", "L", "M", "N", "O",
      "P", "Q", "R", "S", "T", "U", "V", "W",
      "X", "Y", "Z", "[", "\\", "]", "^", "_",
      BackTick, "a", "b", "c", "d", "e", "f", "g",
      "h", "i", "j", "k", "l", "m", "n", "o",
      "p", "q", "r", "s", "t", "u", "v", "w",
      "x", "y", "z", "{", "|", "}", "~", "x7F" >>

CodeOf == [c \in {Ascii[i] : i \in 1..Len(Ascii)} |->
              (CHOOSE i \in 1..Len(Ascii) : Ascii[i] = c) - 1]

\* what TextDecoder gives for a byte that is no character (U+FFFD)
Replacement == "U+FFFD"

\* TextEncoder.encode, for text of U+0000 .. U+007F
stringToBytes(s) == SubSeq([i \in 1..Len(s) |-> CodeOf[s[i]]], 1, Len(s))

\* TextDecoder.decode
bytesToString(b) ==
    SubSeq([i \in 1..Len(b) |-> IF b[i] < Len(Ascii) THEN Ascii[b[i] + 1] ELSE Replacement],
           1, Len(b))

\* the size of an ABI word, in bytes
WordSize == 32

zeros(n) == SubSeq([i \in 1..n |-> 0], 1, n)

\* a number below 2^24 as a big-endian word
numberToWord(n) ==
    SubSeq([i \in 1..WordSize |->
               IF i = WordSize THEN n % 256
               ELSE IF i = WordSize - 1 THEN (n \div 256) % 256
               ELSE IF i = WordSize - 2 THEN (n \div 65536) % 256
               ELSE 0],
           1, WordSize)

\* bytes, padded with zero bytes on the right to a whole number of words
padRight(b) == b \o zeros((WordSize - (Len(b) % WordSize)) % WordSize)

\* a string as a dynamic value: its length in bytes, then its padded bytes
encodeString(s) == numberToWord(Len(s)) \o padRight(stringToBytes(s))

\* the size of the encodings of the first n strings of fields
RECURSIVE tailSize(_, _)
tailSize(fields, n) ==
    IF n = 0 THEN 0
    ELSE tailSize(fields, n - 1) + WordSize + Len(padRight(stringToBytes(fields[n])))

\* the offsets of the strings, counted from the start of the tuple
RECURSIVE encodeHeads(_, _)
encodeHeads(fields, n) ==
    IF n = 0 THEN <<>>
    ELSE encodeHeads(fields, n - 1)
            \o numberToWord(Len(fields) * WordSize + tailSize(fields, n - 1))

RECURSIVE encodeTails(_, _)
encodeTails(fields, n) ==
    IF n = 0 THEN <<>>
    ELSE encodeTails(fields, n - 1) \o encodeString(fields[n])

\* a tuple of strings: the heads, then the strings
encodeTuple(fields) ==
    encodeHeads(fields, Len(fields)) \o encodeTails(fields, Len(fields))

\* encodeAbiParameters(params, [tuple]) for one tuple of strings: the offset
\* of the tuple, then the tuple
encodeAbiParameters(fields) == numberToWord(WordSize) \o encodeTuple(fields)

\* the number in the word at position pos of data; -1 when the word does not
\* lie within data or the number is beyond any position of data
readWord(data, pos) ==
    IF pos < 0 \/ pos + WordSize > Len(data) THEN -1
    ELSE IF \E i \in 1..(WordSize - 3) : data[pos + i] # 0 THEN -1
    ELSE data[pos + WordSize - 2] * 65536 + data[pos + WordSize - 1] * 256
            + data[pos + WordSize]

\* a read that left the data (PositionOutOfBoundsError and its kin)
OutOfBounds == [ok |-> FALSE]

\* the string whose length word is at position at
readString(data, at) ==
    IF at < 0 THEN OutOfBounds
    ELSE CHOOSE r \in
           { IF len < 0 \/ at + WordSize + len > Len(data) THEN OutOfBounds
             ELSE [ok |-> TRUE,
                   value |-> bytesToString(SubSeq(data, at + WordSize + 1,
                                                  at + WordSize + len))] :
               len \in {readWord(data, at)} } : TRUE

\* the i-th string (i = 0, 1, ..) of the tuple that starts at position start
decodeString(data, start, i) ==
    CHOOSE r \in
      { IF offset < 0 THEN OutOfBounds ELSE readString(data, start + offset) :
          offset \in {readWord(data, start + i * WordSize)} } : TRUE

\* the four strings of the tuple that starts at position start
decodeTuple(data, start) ==
    CHOOSE r \in
      { IF \E k \in 1..4 : ~strings[k].ok THEN OutOfBounds
        ELSE [ok |-> TRUE, value |-> [k \in 1..4 |-> strings[k].value]] :
          strings \in {[k \in 1..4 |-> decodeString(data, start, k - 1)]} } : TRUE

\* decodeAbiParameters(LLMAbi, data): the tuple, unless the data is empty,
\* shorter than a word, or a read leaves it
decodeAbiParameters(data) ==
    IF Len(data) < WordSize THEN OutOfBounds
    ELSE CHOOSE r \in
           { IF start < 0 THEN OutOfBounds ELSE decodeTuple(data, start) :
               start \in {readWord(data, 0)} } : TRUE

\* encodeAbiParameters(LLMAbi, [demand])
encodeDemand(demand) ==
    encodeAbiParameters(<<demand.arbitrationProvider, demand.arbitrationModel,
                          demand.arbitrationPrompt, demand.demand>>)

\* a decodeDemand that takes the last string for the model
decodeDemandMisread(data) ==
    CHOOSE r \in
      { IF ~decoded.ok
        THEN [kind |-> "throw", error |-> "DecodeError", cause |-> "abi"]
        ELSE [kind |-> "return",
              value |-> LLMDemand(decoded.value[1], decoded.value[4], decoded.value[3], decoded.value[4])] :
          decoded \in {decodeAbiParameters(data)} } : TRUE

\* const decoded = decodeAbiParameters(LLMAbi, data); return decoded[0]
decodeDemand(data) ==
    CHOOSE r \in
      { IF ~decoded.ok
        THEN [kind |-> "throw", error |-> "DecodeError", cause |-> "abi"]
        ELSE [kind |-> "return",
              value |-> LLMDemand(decoded.value[1], decoded.value[2],
                                 decoded.value[3], decoded.value[4])] :
          decoded \in {decodeAbiParameters(data)} } : TRUE

\* ------------------------------------------------------------------------
\* State
\* ------------------------------------------------------------------------

VARIABLES
    \* the oracle process (src/cli/server/oracle.ts)
    pc,             \* "start" | "listening" | "exited"
    exitCode,       \* -1 while running, else the status of process.exit
    providers,      \* the LLM client's provider list
    watching,       \* the subscription returned by arbitrateMany is active
    \* the ledger, as far as arbitration goes
    requests,       \* ArbitrationRequested events per fulfillment UID
    dataOf,         \* index into DataPool of the demand behind each fulfillment (0: none yet)
    decisionsOf,    \* the decisions recorded per fulfillment UID, in order
    \* one polling session of arbitrateMany
    seen,           \* UIDs already handed to the callback
    stage,          \* per UID: "idle" | "awaiting" | "returned" | "recorded" | "skipped"
    cbResult,       \* per UID: what the callback gave back to arbitrateMany
    arb,            \* per UID: how arbitrate ended
    backend,        \* per UID: how the backend call ended
    sent,           \* per UID: the requests sent to a backend
    notified,       \* per UID: the decisions passed to onAfterArbitrate
    callbackCount,  \* per UID: invocations of the callback
    inFlight,       \* UIDs whose decision transaction is submitted and not yet mined
    \* the fulfill command (src/unnamed/part_009) and the commit-reveal ledger
    step,           \* per attempt: position of main
    exitStatus,     \* per attempt: -1 while running, else the exit status
    called,         \* per attempt: the commit-reveal calls made, in order
    completed,      \* per attempt: the calls that returned successfully, in order
    arbRequested,   \* per attempt: the UID passed to requestArbitration (0: none)
    commitTx,       \* per slot: "none" | "pending" | "confirmed"
    fulfillment,    \* per slot: the reveal created the fulfillment attestation
    bond,           \* per slot: "none" | "held" | "released"
    bondReleases,   \* per slot: bonds paid back
    revealLog,      \* per slot: every doObligation call, with the commit's state then
    reclaimLog,     \* per slot: the result of every reclaimBond call
    \* an LLM client used directly (makeLLMClient of src/nla.ts, as the tests do)
    clProviders,    \* the client's provider list
    clSource,       \* where clData came from: an encoded demand, or other bytes
    clData,         \* the bytes given to decodeDemand
    clDecoded,      \* how decodeDemand ended
    clObligation,   \* the obligation text given to arbitrate
    clCall,         \* the arbitrate call: "idle" | "awaiting" | "returned" | "failed"
    clSelected,     \* the provider arbitrate selected
    clRequests,     \* the requests the call sent to a backend
    clReply,        \* how the backend call ended
    clResult,       \* how arbitrate ended
    clInitial,      \* whether makeLLMClient has run, and the list given to it
    clAdded,        \* the arguments of the addProvider calls, in call order
    clLookup,       \* the last getProvider call and what it returned
    \* the escrows the fulfillments were made for, and the fulfiller's tokens
    escrowed,       \* per UID: the tokens its escrow holds
    balance,        \* the fulfiller's token balance
    collectLog,     \* per UID: the result of every collect call
    \* the configuration of one start of the oracle
    cfgStage,       \* "unset" | "parsed" | "loaded" | "resolved"
    cfgArgs,        \* per key: the value on the command line
    cfgEnvAtStart,  \* per key: process.env when the process starts
    cfgFile,        \* per key: the value in the .env file
    cfgEnv,         \* per key: process.env now
    cfgResolved,    \* per key: the value main goes on with
    \* the older LLM client (makeLLMClient of src/clients/nla.ts) used directly
    lgProviders,    \* the client's provider list
    lgCall,         \* the arbitrate call: "idle" | "awaiting" | "returned" | "failed"
    lgSelected,     \* the provider arbitrate selected
    lgRequests,     \* the requests the call sent to a backend
    lgReply,        \* how the backend call ended
    lgResult        \* how arbitrate ended

ovars == <<pc, exitCode, providers, watching, requests, dataOf, decisionsOf, seen,
           stage, cbResult, arb, backend, sent, notified, callbackCount, inFlight>>

fvars == <<step, exitStatus, called, completed, arbRequested, commitTx, fulfillment,
           bond, bondReleases, revealLog, reclaimLog>>

cvars == <<clProviders, clSource, clData, clDecoded, clObligation, clCall, clSelected,
           clRequests, clReply, clResult, clInitial, clAdded, clLookup>>

evars == <<escrowed, balance, collectLog>>

gvars == <<cfgStage, cfgArgs, cfgEnvAtStart, cfgFile, cfgEnv, cfgResolved>>

lvars == <<lgProviders, lgCall, lgSelected, lgRequests, lgReply, lgResult>>

vars == <<ovars, fvars, cvars, evars, gvars, lvars>>

\* ------------------------------------------------------------------------
\* Inputs
\* ------------------------------------------------------------------------

Model == <<"g","p","t">>

PromptTemplate == DemandPlaceholder \o <<"|">> \o ObligationPlaceholder

DemandText == <<"s","k","y">>

ObligationText == <<"b","l","u","e">>

\* demands an escrow may carry: a well-formed one and three that are malformed
DemandPool ==
    << LLMDemand(OpenAI, Model, PromptTemplate, DemandText),
       LLMDemand(OpenAI, <<>>, PromptTemplate, DemandText),
       LLMDemand(OpenAI, Model, PromptTemplate, <<>>),
       LLMDemand(OpenAI, <<"g", NUL, "t">>, PromptTemplate, DemandText) >>

\* bytes that are no encoding of a demand
Garbage == <<222, 173, 190, 239>>

\* the arbiter data stored with an escrow: the encoded demands, and garbage
DataPool ==
    SubSeq([i \in 1..(Len(DemandPool) + 1) |->
               IF i <= Len(DemandPool) THEN encodeDemand(DemandPool[i]) ELSE Garbage],
           1, Len(DemandPool) + 1)

\* provider names a caller may register with addProvider; Local is served by
\* none of the three backends
Local == <<"L","o","c","a","l">>

ProviderNames == {OpenAI, Anthropic, OpenRouter, Local}

\* the lists a client is made with
InitialLists == { <<>>, <<[providerName |-> <<"o","p","e","n","a","i">>]>> }

\* the names looked up with getProvider: a registered name in another case, a
\* part of a registered name, a text that contains one, a name in upper case
LookupNames ==
    { <<"O","P","E","N","A","I">>,
      <<"O","p","e","n">>,
      <<"o","p","e","n","a","i","/","g","p","t">>,
      <<"L","O","C","A","L">> }

\* arbitrationProvider values of a demand: an exact name in lower case, a part
\* of two names, a text that contains a name, a name nobody registered, nothing
WantedNames ==
    { <<"o","p","e","n","a","i">>,
      <<"O","p","e","n">>,
      <<"o","p","e","n","a","i","/","g","p","t">>,
      <<"m","i","s","t","r","a","l">>,
      <<>> }

\* prompt templates and demand texts that go together in one demand
PromptPairs ==
    { <<PromptTemplate, DemandText>>,
      <<DemandPlaceholder \o <<"&">> \o DemandPlaceholder \o <<"|">> \o ObligationPlaceholder,
        DemandText>>,
      <<PromptTemplate, ObligationPlaceholder>>,
      <<PromptTemplate, <<"$","&">> >> }

\* the obligation texts of a fulfillment
ObligationTexts == { ObligationText, <<"$","$","5">> }

\* the demands a caller encodes: every wanted name with every prompt pair, and
\* the malformed demands of DemandPool
ClientDemands ==
    { LLMDemand(w, Model, pair[1], pair[2]) : w \in WantedNames, pair \in PromptPairs }
        \cup { DemandPool[i] : i \in 2..Len(DemandPool) }

\* the demands given to the older client: every wanted name, one prompt
LegacyDemands == { LLMDemand(w, Model, PromptTemplate, DemandText) : w \in WantedNames }

\* byte strings that did not come from encodeDemand
BytesPool ==
    << <<>>,
       Garbage,
       SubSeq(encodeDemand(DemandPool[1]), 1, 2 * WordSize),
       encodeTuple(<<OpenAI, Model, PromptTemplate, DemandText>>),
       encodeAbiParameters(<<OpenAI, Model, PromptTemplate>>),
       encodeAbiParameters(<<OpenAI, Model, PromptTemplate, DemandText, DemandText>>),
       encodeDemand(DemandPool[1]) \o <<7>>,
       zeros(4 * WordSize) >>

\* the texts a backend may answer with
ReplyTexts ==
    { TrueText,
      <<"T","R","U","E">>,
      <<" "," ","t","r","u","e","\n">>,
      <<"<","a","n","s","w","e","r",">","t","r","u","e","<","/","a","n","s","w","e","r",">">>,
      <<"r","e","s","u","l","t",":"," ","t","r","u","e">>,
      <<"I"," ","t","h","i","n","k"," ","s","o">>,
      <<"f","a","l","s","e",","," ","b","e","c","a","u","s","e",".",".",".">>,
      <<"t","r","u","e"," ","i","n","d","e","e","d">>,
      <<"R","e","s","u","l","t",":"," ","a","n","s","w","e","r",":"," ","t","r","u","e">>,
      Fence \o Fence \o <<"\n","A","n","s","w","e","r",":"," ","T","r","u","e">>,
      FalseText,
      <<>> }

\* how a backend call of the client may end
ClientOutcomes ==
    { [kind |-> "reply", text |-> t] : t \in ReplyTexts }
        \cup { [kind |-> "error", cause |-> "network"] }

\* how a backend call may end
BackendOutcomes ==
    { [kind |-> "reply", text |-> TrueText],
      [kind |-> "reply", text |-> <<" ","T","r","u","e","\n">>],
      [kind |-> "reply", text |-> FalseText],
      [kind |-> "reply", text |-> <<"m","a","y","b","e">>],
      [kind |-> "error", cause |-> "network"] }

\* which API keys the resolved configuration holds
KeySets == SUBSET {"openai", "anthropic", "openrouter"}

\* ------------------------------------------------------------------------
\* src/cli/server/oracle.ts: startup
\* ------------------------------------------------------------------------

\* the three addProvider calls, in the order of main
registerProviders(keys) ==
    (IF "openai" \in keys THEN <<[providerName |-> OpenAI]>> ELSE <<>>)
    \o (IF "anthropic" \in keys THEN <<[providerName |-> Anthropic]>> ELSE <<>>)
    \o (IF "openrouter" \in keys THEN <<[providerName |-> OpenRouter]>> ELSE <<>>)

\* a plausible slip: main without the "at least one API key" check
StartupNoKeyCheck(envFileOk, rpcUrl, privateKey, keys) ==
    /\ pc = "start"
    /\ IF ~envFileOk \/ ~rpcUrl \/ ~privateKey
       THEN /\ pc' = "exited"
            /\ exitCode' = 1
            /\ UNCHANGED <<providers, watching>>
       ELSE /\ pc' = "listening"
            /\ providers' = registerProviders(keys)
            /\ watching' = TRUE
            /\ UNCHANGED exitCode
    /\ UNCHANGED <<requests, dataOf, decisionsOf, seen, stage, cbResult, arb, backend,
                   sent, notified, callbackCount, inFlight>>
    /\ UNCHANGED <<fvars, cvars, evars, gvars, lvars>>

\* main up to "Oracle is now running": configuration checks, provider
\* registration, arbitrateMany
Startup(envFileOk, rpcUrl, privateKey, keys) ==
    /\ pc = "start"
    /\ IF ~envFileOk \/ ~rpcUrl \/ ~privateKey \/ keys = {}
       THEN /\ pc' = "exited"
            /\ exitCode' = 1
            /\ UNCHANGED <<providers, watching>>
       ELSE /\ pc' = "listening"
            /\ providers' = registerProviders(keys)
            /\ watching' = TRUE
            /\ UNCHANGED exitCode
    /\ UNCHANGED <<requests, dataOf, decisionsOf, seen, stage, cbResult, arb, backend,
                   sent, notified, callbackCount, inFlight>>
    /\ UNCHANGED <<fvars, cvars, evars, gvars, lvars>>

\* a plausible slip: a shutdown handler that exits without calling unwatch()
ShutdownKeepWatching ==
    /\ pc = "listening"
    /\ pc' = "exited"
    /\ exitCode' = 0
    /\ UNCHANGED <<providers, watching, requests, dataOf, decisionsOf, seen, stage, cbResult,
                   arb, backend, sent, notified, callbackCount, inFlight>>
    /\ UNCHANGED <<fvars, cvars, evars, gvars, lvars>>

\* shutdown: unwatch(); process.exit(0)
Shutdown ==
    /\ pc = "listening"
    /\ watching' = FALSE
    /\ pc' = "exited"
    /\ exitCode' = 0
    /\ UNCHANGED <<providers, requests, dataOf, decisionsOf, seen, stage, cbResult, arb,
                   backend, sent, notified, callbackCount, inFlight>>
    /\ UNCHANGED <<fvars, cvars, evars, gvars, lvars>>

\* ------------------------------------------------------------------------
\* src/cli/server/oracle.ts: the arbitrateMany callback
\* ------------------------------------------------------------------------

\* a plausible slip: the emptiness tests lose their negation
validDemandInverted(d) ==
    ~(d.demand # <<>> \/ d.arbitrationModel # <<>> \/ includes(d.arbitrationModel, <<NUL>>))

\* the negation of the test that guards "Invalid demand data"
validDemand(d) ==
    ~(d.demand = <<>> \/ d.arbitrationModel = <<>> \/ includes(d.arbitrationModel, <<NUL>>))

\* the try block up to the await inside arbitrate: decode, validate, start
\* arbitrate. Gives a throw, or the request arbitrate sent.
callbackTry(provs, data, obligation) ==
    CHOOSE r \in
      { IF nlaDemandData.kind = "throw" THEN nlaDemandData
        ELSE IF ~validDemand(nlaDemandData.value)
        THEN [kind |-> "throw", error |-> "Invalid demand data - skipping attestation",
              cause |-> "validation"]
        ELSE arbitrateRequest(provs, nlaDemandData.value, obligation) :
          nlaDemandData \in {decodeDemand(data)} } : TRUE

\* a plausible slip: the catch ends the process as the catch of main does
callbackCatchExit(r) ==
    IF r.kind = "throw" THEN [kind |-> "exit", code |-> 1] ELSE r

\* return result; } catch (error) { ...; return false; }
callbackCatch(r) ==
    IF r.kind = "throw" THEN [kind |-> "return", value |-> FALSE] ELSE r

\* ------------------------------------------------------------------------
\* The ledger's arbitration requests and arbitrateMany's polling session
\* ------------------------------------------------------------------------

\* a fulfiller calls requestArbitration(uid, oracle, demand)
RequestArbitration(u, i) ==
    /\ requests[u] < MaxRequests
    /\ IF dataOf[u] = 0 THEN dataOf' = [dataOf EXCEPT ![u] = i] ELSE UNCHANGED dataOf
    /\ requests' = [requests EXCEPT ![u] = @ + 1]
    /\ UNCHANGED <<pc, exitCode, providers, watching, decisionsOf, seen, stage, cbResult,
                   arb, backend, sent, notified, callbackCount, inFlight>>
    /\ UNCHANGED <<fvars, cvars, evars, gvars, lvars>>

\* a loop that hands every polled event to the callback again
isNewEventNoDedup(u) == requests[u] > 0 /\ stage[u] \in {"idle", "recorded", "skipped"}

\* the polled events the session has not handled yet
isNewEvent(u) == requests[u] > 0 /\ u \notin seen

\* what the callback's outcome r does to the session and the process, for UID u
Settle(u, r) ==
    /\ cbResult' = [cbResult EXCEPT ![u] = r]
    /\ IF r.kind = "exit"
       THEN /\ pc' = "exited"
            /\ exitCode' = r.code
            /\ UNCHANGED stage
       ELSE /\ stage' = [stage EXCEPT ![u] = "returned"]
            /\ UNCHANGED <<pc, exitCode>>

\* a poll finds the event of UID u and the loop invokes the callback, which
\* runs to its first await or to its end
Dispatch(u) ==
    /\ pc = "listening"
    /\ watching
    /\ isNewEvent(u)
    /\ callbackCount[u] < MaxDispatch
    /\ seen' = seen \cup {u}
    /\ callbackCount' = [callbackCount EXCEPT ![u] = @ + 1]
    /\ \E r \in {callbackTry(providers, DataPool[dataOf[u]], ObligationText)} :
           IF r.kind = "request"
           THEN /\ sent' = [sent EXCEPT ![u] = Append(@, r.request)]
                /\ stage' = [stage EXCEPT ![u] = "awaiting"]
                /\ UNCHANGED <<arb, cbResult, pc, exitCode>>
           ELSE /\ arb' = [arb EXCEPT ![u] =
                                IF r.error = "LLM arbitration failed" THEN r ELSE @]
                /\ Settle(u, callbackCatch(r))
                /\ UNCHANGED sent
    /\ UNCHANGED <<providers, watching, requests, dataOf, decisionsOf, backend, notified,
                   inFlight>>
    /\ UNCHANGED <<fvars, cvars, evars, gvars, lvars>>

\* generateText settles with outcome o; arbitrate and the callback run to their end
BackendReturn(u, o) ==
    /\ pc = "listening"
    /\ stage[u] = "awaiting"
    /\ backend' = [backend EXCEPT ![u] = o]
    /\ arb' = [arb EXCEPT ![u] = arbitrateResult(o)]
    /\ Settle(u, callbackCatch(arbitrateResult(o)))
    /\ UNCHANGED <<providers, watching, requests, dataOf, decisionsOf, seen, sent,
                   notified, callbackCount, inFlight>>
    /\ UNCHANGED <<fvars, cvars, evars, gvars, lvars>>

\* a loop that submits a decision while another one of the signer is pending
signerFreeAlways == TRUE

\* decision transactions are sequenced per signer: the next one is submitted
\* when none is pending
signerFree == inFlight = {}

\* the loop takes the callback's outcome: a boolean is submitted to the ledger
\* as the decision for u and onAfterArbitrate runs; a throw skips the event
Record(u) ==
    /\ pc = "listening"
    /\ stage[u] = "returned"
    /\ IF cbResult[u].kind = "return"
       THEN /\ signerFree
            /\ decisionsOf' = [decisionsOf EXCEPT ![u] = Append(@, cbResult[u].value)]
            /\ notified' = [notified EXCEPT ![u] =
                               Append(@, [uid |-> u, decision |-> cbResult[u].value])]
            /\ stage' = [stage EXCEPT ![u] = "recorded"]
            /\ inFlight' = inFlight \cup {u}
       ELSE /\ stage' = [stage EXCEPT ![u] = "skipped"]
            /\ UNCHANGED <<decisionsOf, notified, inFlight>>
    /\ UNCHANGED <<pc, exitCode, providers, watching, requests, dataOf, seen, cbResult,
                   arb, backend, sent, callbackCount>>
    /\ UNCHANGED <<fvars, cvars, evars, gvars, lvars>>

\* the chain includes the decision transaction of u in a block
DecisionMined(u) ==
    /\ u \in inFlight
    /\ inFlight' = inFlight \ {u}
    /\ UNCHANGED <<pc, exitCode, providers, watching, requests, dataOf, decisionsOf, seen,
                   stage, cbResult, arb, backend, sent, notified, callbackCount>>
    /\ UNCHANGED <<fvars, cvars, evars, gvars, lvars>>

\* ------------------------------------------------------------------------
\* The commit-reveal ledger
\* ------------------------------------------------------------------------

\* slot 0 is driven by direct calls of the SDK (as tests/nlaOracle.test.ts
\* does), slots 1..MaxAttempts by runs of the fulfill command
SdkSlot == 0

Slots == {SdkSlot} \cup Attempts

\* a ledger that pays the bond back on every call after a reveal
ledgerReclaimBondAgain(s) ==
    IF ~fulfillment[s] THEN "NotRevealed" ELSE "ok"

\* reclaimBond(uid) on the ledger: the result of the call
ledgerReclaimBond(s) ==
    IF ~fulfillment[s] THEN "NotRevealed"
    ELSE IF bond[s] = "released" THEN "AlreadyReclaimed"
    ELSE "ok"

\* doObligation(data, escrow) on the ledger: the result of the call
ledgerDoObligation(s) ==
    IF commitTx[s] # "confirmed" THEN "CommitRevealViolation"
    ELSE IF fulfillment[s] THEN "AlreadyRevealed"
    ELSE "ok"

\* the ledger's state after commit(commitment) was submitted for slot s
CommitOn(s) ==
    /\ commitTx' = [commitTx EXCEPT ![s] = "pending"]
    /\ bond' = [bond EXCEPT ![s] = "held"]

\* the ledger's state after a doObligation call for slot s
RevealOn(s) ==
    /\ revealLog' = [revealLog EXCEPT ![s] =
                        Append(@, [at |-> commitTx[s], result |-> ledgerDoObligation(s)])]
    /\ fulfillment' = [fulfillment EXCEPT ![s] = @ \/ ledgerDoObligation(s) = "ok"]

\* the ledger's state after a reclaimBond call for slot s
ReclaimOn(s) ==
    /\ reclaimLog' = [reclaimLog EXCEPT ![s] = Append(@, ledgerReclaimBond(s))]
    /\ IF ledgerReclaimBond(s) = "ok"
       THEN /\ bond' = [bond EXCEPT ![s] = "released"]
            /\ bondReleases' = [bondReleases EXCEPT ![s] = @ + 1]
       ELSE UNCHANGED <<bond, bondReleases>>

\* a block is mined: the pending commit of slot s is confirmed
MineBlock(s) ==
    /\ commitTx[s] = "pending"
    /\ commitTx' = [commitTx EXCEPT ![s] = "confirmed"]
    /\ UNCHANGED <<step, exitStatus, called, completed, arbRequested, fulfillment, bond,
                   bondReleases, revealLog, reclaimLog>>
    /\ UNCHANGED <<ovars, cvars, evars, gvars, lvars>>

\* direct SDK calls: commit, doObligation and reclaimBond at any time
SdkCommit ==
    /\ commitTx[SdkSlot] = "none"
    /\ CommitOn(SdkSlot)
    /\ UNCHANGED <<step, exitStatus, called, completed, arbRequested, fulfillment,
                   bondReleases, revealLog, reclaimLog>>
    /\ UNCHANGED <<ovars, cvars, evars, gvars, lvars>>

SdkDoObligation ==
    /\ commitTx[SdkSlot] # "none"
    /\ Len(revealLog[SdkSlot]) < MaxDirect
    /\ RevealOn(SdkSlot)
    /\ UNCHANGED <<step, exitStatus, called, completed, arbRequested, commitTx, bond,
                   bondReleases, reclaimLog>>
    /\ UNCHANGED <<ovars, cvars, evars, gvars, lvars>>

SdkReclaimBond ==
    /\ fulfillment[SdkSlot]
    /\ Len(reclaimLog[SdkSlot]) < MaxDirect
    /\ ReclaimOn(SdkSlot)
    /\ UNCHANGED <<step, exitStatus, called, completed, arbRequested, commitTx,
                   fulfillment, revealLog>>
    /\ UNCHANGED <<ovars, cvars, evars, gvars, lvars>>

\* ------------------------------------------------------------------------
\* src/unnamed/part_009: main of the fulfill command
\* ------------------------------------------------------------------------

\* a main that goes on after a failed step
advanceIgnoringFailure(ok, next) == [step |-> next, exit |-> -1]

\* a plausible slip: a catch that ends the process with status 0
advanceExitZero(ok, next) ==
    IF ok THEN [step |-> next, exit |-> -1] ELSE [step |-> "Failed", exit |-> 0]

\* every await sits in one try block: a step that throws ends main in the
\* catch, which calls process.exit(1)
advance(ok, next) ==
    IF ok THEN [step |-> next, exit |-> -1] ELSE [step |-> "Failed", exit |-> 1]

\* a main without the wait for the commit's receipt
receiptReadyNoWait(tx) == tx \in {"pending", "confirmed"}

\* await walletClient.waitForTransactionReceipt({hash: commitHash}) resolves
receiptReady(tx) == tx = "confirmed"

\* the positions of main, in the order of its statements
flowOrder ==
    <<"Unstarted", "Computed", "CommitSent", "Committed", "Revealed", "BondReclaimed",
      "Requested">>

\* the position that follows position p
after(p) == flowOrder[(CHOOSE i \in 1..Len(flowOrder) : flowOrder[i] = p) + 1]

Move(a, ok, call) ==
    /\ step' = [step EXCEPT ![a] = advance(ok, after(step[a])).step]
    /\ exitStatus' = [exitStatus EXCEPT ![a] = advance(ok, after(step[a])).exit]
    /\ called' = [called EXCEPT ![a] = Append(@, call)]
    /\ completed' = [completed EXCEPT ![a] = IF ok THEN Append(@, call) ELSE @]

\* argument and balance checks, then computeCommitment
FlowComputeCommitment(a, argsOk, netOk) ==
    /\ step[a] = "Unstarted" /\ exitStatus[a] = -1
    /\ IF ~argsOk
       THEN /\ step' = [step EXCEPT ![a] = "Failed"]
            /\ exitStatus' = [exitStatus EXCEPT ![a] = 1]
            /\ UNCHANGED <<called, completed>>
       ELSE Move(a, netOk, "computeCommitment")
    /\ UNCHANGED <<arbRequested, commitTx, fulfillment, bond, bondReleases, revealLog,
                   reclaimLog>>
    /\ UNCHANGED <<ovars, cvars, evars, gvars, lvars>>

FlowCommit(a, netOk) ==
    /\ step[a] = "Computed" /\ exitStatus[a] = -1
    /\ Move(a, netOk, "commit")
    /\ IF netOk THEN CommitOn(a) ELSE UNCHANGED <<commitTx, bond>>
    /\ UNCHANGED <<arbRequested, fulfillment, bondReleases, revealLog, reclaimLog>>
    /\ UNCHANGED <<ovars, cvars, evars, gvars, lvars>>

\* the wait resolves once the receipt is there, or it fails
FlowWaitReceipt(a, netOk) ==
    /\ step[a] = "CommitSent" /\ exitStatus[a] = -1
    /\ netOk => receiptReady(commitTx[a])
    /\ Move(a, netOk, "waitForTransactionReceipt")
    /\ UNCHANGED <<arbRequested, commitTx, fulfillment, bond, bondReleases, revealLog,
                   reclaimLog>>
    /\ UNCHANGED <<ovars, cvars, evars, gvars, lvars>>

FlowDoObligation(a, netOk) ==
    /\ step[a] = "Committed" /\ exitStatus[a] = -1
    /\ Move(a, netOk /\ ledgerDoObligation(a) = "ok", "doObligation")
    /\ IF netOk THEN RevealOn(a) ELSE UNCHANGED <<revealLog, fulfillment>>
    /\ UNCHANGED <<arbRequested, commitTx, bond, bondReleases, reclaimLog>>
    /\ UNCHANGED <<ovars, cvars, evars, gvars, lvars>>

FlowReclaimBond(a, netOk) ==
    /\ step[a] = "Revealed" /\ exitStatus[a] = -1
    /\ Move(a, netOk /\ ledgerReclaimBond(a) = "ok", "reclaimBond")
    /\ IF netOk THEN ReclaimOn(a) ELSE UNCHANGED <<reclaimLog, bond, bondReleases>>
    /\ UNCHANGED <<arbRequested, commitTx, fulfillment, revealLog>>
    /\ UNCHANGED <<ovars, cvars, evars, gvars, lvars>>

\* getAttestation, requestArbitration(fulfillmentAttestation.uid, ...), and the
\* end of main
FlowRequestArbitration(a, netOk) ==
    /\ step[a] = "BondReclaimed" /\ exitStatus[a] = -1
    /\ step' = [step EXCEPT ![a] = advance(netOk, after(step[a])).step]
    /\ exitStatus' = [exitStatus EXCEPT ![a] = IF netOk THEN 0 ELSE advance(netOk, "Requested").exit]
    /\ called' = [called EXCEPT ![a] = Append(@, "requestArbitration")]
    /\ completed' = [completed EXCEPT ![a] = IF netOk THEN Append(@, "requestArbitration") ELSE @]
    /\ arbRequested' = [arbRequested EXCEPT ![a] = IF netOk THEN a ELSE @]
    /\ UNCHANGED <<commitTx, fulfillment, bond, bondReleases, revealLog, reclaimLog>>
    /\ UNCHANGED <<ovars, cvars, evars, gvars, lvars>>

\* ------------------------------------------------------------------------
\* src/nla.ts used directly: makeLLMClient, addProvider, encodeDemand,
\* decodeDemand, arbitrate (the calls of src/tests/nla.test.ts and
\* src/tests/nlaOracle.test.ts)
\* ------------------------------------------------------------------------

\* const llmClient = makeLLMClient(providers)
MakeLLMClient(initial) ==
    /\ ~clInitial.made
    /\ clInitial' = [made |-> TRUE, list |-> initial]
    /\ clProviders' = initial
    /\ UNCHANGED <<clSource, clData, clDecoded, clObligation, clCall, clSelected,
                   clRequests, clReply, clResult, clAdded, clLookup>>
    /\ UNCHANGED <<ovars, fvars, evars, gvars, lvars>>

\* a plausible slip: addProvider that puts the new provider in front
addProviderInFront(name) ==
    /\ clInitial.made
    /\ clCall = "idle"
    /\ Len(clAdded) < MaxProviders
    /\ clProviders' = <<[providerName |-> name]>> \o clProviders
    /\ clAdded' = Append(clAdded, [providerName |-> name])
    /\ UNCHANGED <<clSource, clData, clDecoded, clObligation, clCall, clSelected,
                   clRequests, clReply, clResult>>
    /\ UNCHANGED <<clInitial, clLookup>>
    /\ UNCHANGED <<ovars, fvars, evars, gvars, lvars>>

\* llmClient.addProvider(providerConfig)
addProvider(name) ==
    /\ clInitial.made
    /\ clCall = "idle"
    /\ Len(clAdded) < MaxProviders
    /\ clProviders' = Append(clProviders, [providerName |-> name])
    /\ clAdded' = Append(clAdded, [providerName |-> name])
    /\ UNCHANGED <<clSource, clData, clDecoded, clObligation, clCall, clSelected,
                   clRequests, clReply, clResult>>
    /\ UNCHANGED <<clInitial, clLookup>>
    /\ UNCHANGED <<ovars, fvars, evars, gvars, lvars>>

\* const config = llmClient.getProvider(providerName)
GetProvider(providerName) ==
    /\ clInitial.made
    /\ clLookup' = [name |-> providerName, result |-> getProvider(clProviders, providerName, 1)]
    /\ UNCHANGED <<clProviders, clSource, clData, clDecoded, clObligation, clCall, clSelected,
                   clRequests, clReply, clResult, clInitial, clAdded>>
    /\ UNCHANGED <<ovars, fvars, evars, gvars, lvars>>

\* const data = llmClient.encodeDemand(demand)
EncodeDemand(demand) ==
    /\ clInitial.made
    /\ clSource = NoneRec
    /\ clSource' = [kind |-> "demand", demand |-> demand]
    /\ clData' = encodeDemand(demand)
    /\ UNCHANGED <<clProviders, clDecoded, clObligation, clCall, clSelected,
                   clRequests, clReply, clResult>>
    /\ UNCHANGED <<clInitial, clAdded, clLookup>>
    /\ UNCHANGED <<ovars, fvars, evars, gvars, lvars>>

\* the arbiter data of an escrow somebody else made
TakeBytes(k) ==
    /\ clInitial.made
    /\ clSource = NoneRec
    /\ clSource' = [kind |-> "bytes", index |-> k]
    /\ clData' = BytesPool[k]
    /\ UNCHANGED <<clProviders, clDecoded, clObligation, clCall, clSelected,
                   clRequests, clReply, clResult>>
    /\ UNCHANGED <<clInitial, clAdded, clLookup>>
    /\ UNCHANGED <<ovars, fvars, evars, gvars, lvars>>

\* const nlaDemandData = llmClient.decodeDemand(data)
DecodeDemand ==
    /\ clSource # NoneRec
    /\ clDecoded = NoneRec
    /\ clDecoded' = decodeDemand(clData)
    /\ UNCHANGED <<clProviders, clSource, clData, clObligation, clCall, clSelected,
                   clRequests, clReply, clResult>>
    /\ UNCHANGED <<clInitial, clAdded, clLookup>>
    /\ UNCHANGED <<ovars, fvars, evars, gvars, lvars>>

\* llmClient.arbitrate(nlaDemandData, obligation), up to its await or its throw
Arbitrate(obligation) ==
    /\ clCall = "idle"
    /\ clDecoded # NoneRec
    /\ clDecoded.kind = "return"
    /\ \E r \in {arbitrateRequest(clProviders, clDecoded.value, obligation)} :
          /\ clRequests' = IF r.kind = "request" THEN <<r.request>> ELSE <<>>
          /\ clCall' = IF r.kind = "request" THEN "awaiting" ELSE "failed"
          /\ clResult' = IF r.kind = "request" THEN NoneRec ELSE r
    /\ clSelected' = selectProvider(clProviders, clDecoded.value)
    /\ clObligation' = obligation
    /\ UNCHANGED <<clProviders, clSource, clData, clDecoded, clReply>>
    /\ UNCHANGED <<clInitial, clAdded, clLookup>>
    /\ UNCHANGED <<ovars, fvars, evars, gvars, lvars>>

\* generateText settles and arbitrate returns or throws
BackendSettles(outcome) ==
    /\ clCall = "awaiting"
    /\ clReply' = outcome
    /\ \E r \in {arbitrateResult(outcome)} :
          /\ clResult' = r
          /\ clCall' = IF r.kind = "return" THEN "returned" ELSE "failed"
    /\ UNCHANGED <<clProviders, clSource, clData, clDecoded, clObligation, clSelected,
                   clRequests>>
    /\ UNCHANGED <<clInitial, clAdded, clLookup>>
    /\ UNCHANGED <<ovars, fvars, evars, gvars, lvars>>

\* ------------------------------------------------------------------------
\* src/clients/nla.ts used directly: makeLLMClient([]), addProvider,
\* arbitrate (the calls of src/tests/nla.test.ts)
\* ------------------------------------------------------------------------

\* llmClient.addProvider(provider)
LegacyAddProvider(name) ==
    /\ lgCall = "idle"
    /\ Len(lgProviders) < MaxProviders
    /\ lgProviders' = Append(lgProviders, [providerName |-> name])
    /\ UNCHANGED <<lgCall, lgSelected, lgRequests, lgReply, lgResult>>
    /\ UNCHANGED <<ovars, fvars, cvars, evars, gvars>>

\* llmClient.arbitrate(demand, obligation), up to its await, return or throw
LegacyArbitrate(demand, obligation) ==
    /\ lgCall = "idle"
    /\ \E selectedProvider \in {selectProvider(lgProviders, demand)} :
          /\ lgSelected' = selectedProvider
          /\ \E r \in {legacyRequestVia(selectedProvider, demand, obligation)} :
                /\ lgRequests' = IF r.kind = "request" THEN <<r.request>> ELSE <<>>
                /\ lgCall' = CASE r.kind = "request" -> "awaiting"
                                [] r.kind = "return" -> "returned"
                                [] OTHER -> "failed"
                /\ lgResult' = IF r.kind = "request" THEN NoneRec ELSE r
    /\ UNCHANGED <<lgProviders, lgReply>>
    /\ UNCHANGED <<ovars, fvars, cvars, evars, gvars>>

\* generateText settles and arbitrate returns or throws
LegacyBackendSettles(outcome) ==
    /\ lgCall = "awaiting"
    /\ lgReply' = outcome
    /\ \E r \in {legacyResult(outcome)} :
          /\ lgResult' = r
          /\ lgCall' = IF r.kind = "return" THEN "returned" ELSE "failed"
    /\ UNCHANGED <<lgProviders, lgSelected, lgRequests>>
    /\ UNCHANGED <<ovars, fvars, cvars, evars, gvars>>

\* ------------------------------------------------------------------------
\* The escrow of a fulfillment: collect
\* ------------------------------------------------------------------------

\* const escrowAmount = 100n
EscrowAmount == 100

\* a true decision for u is on the ledger
approved(u) ==
    /\ u \notin inFlight
    /\ \E i \in 1..Len(decisionsOf[u]) : decisionsOf[u][i]

\* a ledger that pays on a false decision
ledgerCollectInverted(u) ==
    IF escrowed[u] > 0 /\ u \notin inFlight
          /\ \E i \in 1..Len(decisionsOf[u]) : ~decisionsOf[u][i]
    THEN [ok |-> TRUE, paid |-> escrowed[u]]
    ELSE [ok |-> FALSE, paid |-> 0]

\* the ledger's answer to collect(escrow, u): the escrow pays what it holds
\* when the oracle approved u, and reverts otherwise
ledgerCollect(u) ==
    IF escrowed[u] > 0 /\ approved(u)
    THEN [ok |-> TRUE, paid |-> escrowed[u]]
    ELSE [ok |-> FALSE, paid |-> 0]

\* client.erc20.escrow.nonTierable.collect(escrow.uid, fulfillment.uid)
Collect(u) ==
    /\ Len(collectLog[u]) < MaxCollect
    /\ \E r \in {ledgerCollect(u)} :
          /\ collectLog' = [collectLog EXCEPT ![u] = Append(@, r.ok)]
          /\ balance' = balance + r.paid
          /\ escrowed' = [escrowed EXCEPT ![u] = @ - r.paid]
    /\ UNCHANGED <<ovars, fvars, cvars, gvars, lvars>>

\* ------------------------------------------------------------------------
\* src/cli/server/oracle.ts: where the keys come from
\* ------------------------------------------------------------------------

\* undefined: no such option, no such variable, no such line
Unset == "undefined"

\* the private key and one provider key; the other provider keys are
\* resolved by the same expression
ConfigKeys == {"ORACLE_PRIVATE_KEY", "OPENAI_API_KEY"}

\* the values an option, a variable or a line of the file may have
ArgValues == {Unset, "", "from-cli"}

EnvValues == {Unset, "", "from-env"}

FileValues == {Unset, "", "from-file"}

\* !v of JavaScript for a string or undefined
falsy(v) == v = Unset \/ v = ""

\* a loadEnvFile that sets every variable the file names
loadedValueOverriding(current, fileValue) ==
    IF fileValue # Unset THEN fileValue ELSE current

\* if (!process.env[key]) { process.env[key] = value }, for a key of the file
loadedValue(current, fileValue) ==
    IF fileValue # Unset /\ falsy(current) THEN fileValue ELSE current

\* args[option] || process.env[KEY]
resolvedValue(arg, env) == IF ~falsy(arg) THEN arg ELSE env

\* the process starts: parseCliArgs() returns, process.env is what the shell
\* gave, the .env file is what it is
ParseCliArgs(args, env, file) ==
    /\ cfgStage = "unset"
    /\ cfgStage' = "parsed"
    /\ cfgArgs' = args
    /\ cfgEnvAtStart' = env
    /\ cfgEnv' = env
    /\ cfgFile' = file
    /\ UNCHANGED cfgResolved
    /\ UNCHANGED <<ovars, fvars, cvars, evars, lvars>>

\* loadEnvFile(resolvedEnvPath)
LoadEnvFile ==
    /\ cfgStage = "parsed"
    /\ cfgStage' = "loaded"
    /\ cfgEnv' = [k \in ConfigKeys |-> loadedValue(cfgEnv[k], cfgFile[k])]
    /\ UNCHANGED <<cfgArgs, cfgEnvAtStart, cfgFile, cfgResolved>>
    /\ UNCHANGED <<ovars, fvars, cvars, evars, lvars>>

\* const privateKey = args["private-key"] || process.env.ORACLE_PRIVATE_KEY, and
\* the same for the provider keys
ResolveKeys ==
    /\ cfgStage = "loaded"
    /\ cfgStage' = "resolved"
    /\ cfgResolved' = [k \in ConfigKeys |-> resolvedValue(cfgArgs[k], cfgEnv[k])]
    /\ UNCHANGED <<cfgArgs, cfgEnvAtStart, cfgFile, cfgEnv>>
    /\ UNCHANGED <<ovars, fvars, cvars, evars, lvars>>

\* ------------------------------------------------------------------------
\* Specifications
\* ------------------------------------------------------------------------

OracleInit ==
    /\ pc = "start"
    /\ exitCode = -1
    /\ providers = <<>>
    /\ watching = FALSE
    /\ requests = [u \in Uids |-> 0]
    /\ dataOf = [u \in Uids |-> 0]
    /\ decisionsOf = [u \in Uids |-> <<>>]
    /\ seen = {}
    /\ stage = [u \in Uids |-> "idle"]
    /\ cbResult = [u \in Uids |-> NoneRec]
    /\ arb = [u \in Uids |-> NoneRec]
    /\ backend = [u \in Uids |-> NoneRec]
    /\ sent = [u \in Uids |-> <<>>]
    /\ notified = [u \in Uids |-> <<>>]
    /\ callbackCount = [u \in Uids |-> 0]
    /\ inFlight = {}

FulfillInit ==
    /\ step = [a \in Attempts |-> "Unstarted"]
    /\ exitStatus = [a \in Attempts |-> -1]
    /\ called = [a \in Attempts |-> <<>>]
    /\ completed = [a \in Attempts |-> <<>>]
    /\ arbRequested = [a \in Attempts |-> 0]
    /\ commitTx = [s \in Slots |-> "none"]
    /\ fulfillment = [s \in Slots |-> FALSE]
    /\ bond = [s \in Slots |-> "none"]
    /\ bondReleases = [s \in Slots |-> 0]
    /\ revealLog = [s \in Slots |-> <<>>]
    /\ reclaimLog = [s \in Slots |-> <<>>]

ClientInit ==
    /\ clSource = NoneRec
    /\ clData = <<>>
    /\ clDecoded = NoneRec
    /\ clObligation = <<>>
    /\ clCall = "idle"
    /\ clSelected = Undefined
    /\ clRequests = <<>>
    /\ clReply = NoneRec
    /\ clResult = NoneRec
    /\ clInitial = [made |-> FALSE, list |-> <<>>]
    /\ clProviders = <<>>
    /\ clAdded = <<>>
    /\ clLookup = NoneRec

EscrowInit ==
    /\ escrowed = [u \in Uids |-> EscrowAmount]
    /\ balance = 0
    /\ collectLog = [u \in Uids |-> <<>>]

ConfigInit ==
    /\ cfgStage = "unset"
    /\ cfgArgs = [k \in ConfigKeys |-> Unset]
    /\ cfgEnvAtStart = [k \in ConfigKeys |-> Unset]
    /\ cfgFile = [k \in ConfigKeys |-> Unset]
    /\ cfgEnv = [k \in ConfigKeys |-> Unset]
    /\ cfgResolved = [k \in ConfigKeys |-> Unset]

LegacyInit ==
    /\ lgProviders = <<>>
    /\ lgCall = "idle"
    /\ lgSelected = Undefined
    /\ lgRequests = <<>>
    /\ lgReply = NoneRec
    /\ lgResult = NoneRec

Init == OracleInit /\ FulfillInit /\ ClientInit /\ EscrowInit /\ ConfigInit /\ LegacyInit

\* the oracle and the arbitration requests it serves
Next ==
    \/ \E envFileOk, rpcUrl, privateKey \in BOOLEAN, keys \in KeySets :
          Startup(envFileOk, rpcUrl, privateKey, keys)
    \/ Shutdown
    \/ \E u \in Uids, i \in 1..Len(DataPool) : RequestArbitration(u, i)
    \/ \E u \in Uids : Dispatch(u)
    \/ \E u \in Uids, o \in BackendOutcomes : BackendReturn(u, o)
    \/ \E u \in Uids : Record(u)
    \/ \E u \in Uids : DecisionMined(u)

Spec == Init /\ [][Next]_vars

\* the poll timer fires, a pending backend call settles, and the loop goes on
\* with a settled callback
Fairness ==
    \A u \in Uids :
        /\ WF_vars(Dispatch(u))
        /\ WF_vars(\E o \in BackendOutcomes : BackendReturn(u, o))
        /\ WF_vars(Record(u))
        /\ WF_vars(DecisionMined(u))

FairSpec == Spec /\ Fairness

\* as FairSpec, but with nothing that makes a pending backend call settle:
\* arbitrate awaits generateText without a timeout or an abort signal
HungBackendSpec ==
    Spec /\ \A u \in Uids :
                WF_vars(Dispatch(u)) /\ WF_vars(Record(u)) /\ WF_vars(DecisionMined(u))

\* one start of the oracle up to the resolved keys, over every combination
\* of command line, environment and .env file
ConfigNext ==
    \/ \E args \in [ConfigKeys -> ArgValues], env \in [ConfigKeys -> EnvValues],
          file \in [ConfigKeys -> FileValues] : ParseCliArgs(args, env, file)
    \/ LoadEnvFile
    \/ ResolveKeys

ConfigSpec == Init /\ [][ConfigNext]_vars

\* the oracle together with a fulfiller who calls collect
EscrowNext ==
    \/ Next
    \/ \E u \in Uids : Collect(u)

EscrowSpec == Init /\ [][EscrowNext]_vars

ClientNext ==
    \/ \E initial \in InitialLists : MakeLLMClient(initial)
    \/ \E name \in ProviderNames : addProvider(name)
    \/ \E providerName \in LookupNames : GetProvider(providerName)
    \/ \E demand \in ClientDemands : EncodeDemand(demand)
    \/ \E k \in 1..Len(BytesPool) : TakeBytes(k)
    \/ DecodeDemand
    \/ \E obligation \in ObligationTexts : Arbitrate(obligation)
    \/ \E outcome \in ClientOutcomes : BackendSettles(outcome)

LegacyNext ==
    \/ \E name \in ProviderNames : LegacyAddProvider(name)
    \/ \E demand \in LegacyDemands, obligation \in ObligationTexts :
          LegacyArbitrate(demand, obligation)
    \/ \E outcome \in ClientOutcomes : LegacyBackendSettles(outcome)

\* the older client alone, driven as src/tests/nla.test.ts drives it
LegacySpec == Init /\ [][LegacyNext]_vars

\* the client alone, driven as the tests drive it
ClientSpec == Init /\ [][ClientNext]_vars

\* runs of the fulfill command against the commit-reveal ledger
FulfillNext ==
    \/ \E a \in Attempts, argsOk, netOk \in BOOLEAN : FlowComputeCommitment(a, argsOk, netOk)
    \/ \E a \in Attempts, netOk \in BOOLEAN : FlowCommit(a, netOk)
    \/ \E a \in Attempts, netOk \in BOOLEAN : FlowWaitReceipt(a, netOk)
    \/ \E a \in Attempts, netOk \in BOOLEAN : FlowDoObligation(a, netOk)
    \/ \E a \in Attempts, netOk \in BOOLEAN : FlowReclaimBond(a, netOk)
    \/ \E a \in Attempts, netOk \in BOOLEAN : FlowRequestArbitration(a, netOk)
    \/ \E s \in Slots : MineBlock(s)
    \/ SdkCommit
    \/ SdkDoObligation
    \/ SdkReclaimBond

FulfillSpec == Init /\ [][FulfillNext]_vars

\* ------------------------------------------------------------------------
\* Vocabulary of the properties
\* ------------------------------------------------------------------------

\* the demand stored for u decodes as a four-string tuple
Decodes(u) == dataOf[u] \in 1..Len(DemandPool)

\* MalformedDemand: the model holds a NUL, or the model or the demand text is empty
MalformedDemand(d) ==
    \/ d.arbitrationModel = <<>>
    \/ d.demand = <<>>
    \/ \E i \in 1..Len(d.arbitrationModel) : d.arbitrationModel[i] = NUL

Malformed(u) == Decodes(u) /\ MalformedDemand(DemandPool[dataOf[u]])

WellFormed(u) == Decodes(u) /\ ~MalformedDemand(DemandPool[dataOf[u]])

\* the callback has finished for u
Handled(u) == cbResult[u] # NoneRec

\* the handling of u's event raised an error
EventFailed(u) ==
    /\ Handled(u)
    /\ dataOf[u] # 0
    /\ (~WellFormed(u) \/ backend[u].kind = "error")

Decided(u) == decisionsOf[u] # <<>>

\* ------------------------------------------------------------------------
\* C1
\* ------------------------------------------------------------------------

\* C1: when the decoded demand is malformed (NUL in the model, empty model or
\* empty demand text) the event is skipped: no decision, true or false, is
\* recorded for that fulfillment UID.
C1_MalformedDemandNotDecided ==
    \A u \in Uids : Malformed(u) => decisionsOf[u] = <<>>

\* ------------------------------------------------------------------------
\* C2
\* ------------------------------------------------------------------------

\* C2: when arbitrate fails because the backend call failed, no decision is
\* recorded for the fulfillment; the failure never becomes a recorded false.
C2_BackendFailureNotDecided ==
    \A u \in Uids : backend[u].kind = "error" => decisionsOf[u] = <<>>

\* ------------------------------------------------------------------------
\* C3
\* ------------------------------------------------------------------------

\* C3: arbitrate returns a boolean only when the backend replied; a backend
\* error makes the call fail with an error that carries the original cause.
C3_ArbitrateFailsOnBackendError ==
    \A u \in Uids :
        /\ arb[u].kind = "return" => backend[u].kind = "reply"
        /\ backend[u].kind = "error" =>
              /\ arb[u].kind = "throw"
              /\ arb[u].cause = backend[u].cause

C3_Witness ==
    \E u, v \in Uids :
        /\ backend[u].kind = "error" /\ arb[u].kind = "throw"
        /\ backend[v].kind = "reply" /\ arb[v] = [kind |-> "return", value |-> FALSE]

\* ------------------------------------------------------------------------
\* C4
\* ------------------------------------------------------------------------

C5_AtMostOneDecisionPerUid ==
    \A u \in Uids :
        /\ Len(decisionsOf[u]) <= 1
        /\ callbackCount[u] <= 1
        /\ Len(notified[u]) <= 1

C5_Witness ==
    \E u \in Uids :
        /\ requests[u] >= 2
        /\ Len(decisionsOf[u]) = 1
        /\ stage[u] = "recorded"

\* ------------------------------------------------------------------------
\* C6
\* ------------------------------------------------------------------------

\* C6: every recorded decision references the UID given to the callback and
\* carries exactly the boolean arbitrate returned for that attestation; when
\* the backend replies "true" the decision is true and is the only one.
C6_DecisionIsArbitratesVerdict ==
    \A u \in Uids :
        /\ \A i \in 1..Len(decisionsOf[u]) :
              /\ arb[u].kind = "return"
              /\ decisionsOf[u][i] = arb[u].value
              /\ notified[u][i] = [uid |-> u, decision |-> arb[u].value]
        /\ (backend[u] = [kind |-> "reply", text |-> TrueText] /\ stage[u] = "recorded")
              => decisionsOf[u] = <<TRUE>>

\* ------------------------------------------------------------------------
\* C7
\* ------------------------------------------------------------------------

\* C7: while the oracle is watching, a request for a fulfillment whose demand
\* is well-formed and whose backend call returns a reply is eventually
\* followed by a recorded decision carrying arbitrate's verdict, and
\* onAfterArbitrate fires for it.
C7_NoDecisionLost ==
    \A u \in Uids :
        (requests[u] > 0 /\ WellFormed(u) /\ pc = "listening")
           ~> \/ pc = "exited"
              \/ backend[u].kind = "error"
              \/ /\ arb[u].kind = "return"
                 /\ decisionsOf[u] = <<arb[u].value>>
                 /\ notified[u] = <<[uid |-> u, decision |-> arb[u].value]>>

C7_Witness ==
    \E u \in Uids :
        /\ WellFormed(u)
        /\ backend[u] = [kind |-> "reply", text |-> <<" ","T","r","u","e","\n">>]
        /\ decisionsOf[u] = <<TRUE>>
        /\ notified[u] = <<[uid |-> u, decision |-> TRUE]>>

\* ------------------------------------------------------------------------
\* C8
\* ------------------------------------------------------------------------

\* C8: the fulfill command calls doObligation only after the wait for the
\* commit's receipt returned, so the commit is confirmed at every reveal it
\* makes; a doObligation that reaches the ledger before the commit is
\* confirmed fails with CommitRevealViolation.
C8_RevealAfterConfirmedCommit ==
    /\ \A a \in Attempts :
          /\ \A i \in 1..Len(called[a]) :
                called[a][i] = "doObligation" =>
                   \E j \in 1..Len(completed[a]) : completed[a][j] = "waitForTransactionReceipt"
          /\ \A i \in 1..Len(revealLog[a]) : revealLog[a][i].at = "confirmed"
    /\ \A s \in Slots :
          \A i \in 1..Len(revealLog[s]) :
             revealLog[s][i].at # "confirmed" =>
                revealLog[s][i].result = "CommitRevealViolation"

C8_Witness ==
    /\ \E a \in Attempts : step[a] = "Revealed" /\ Len(revealLog[a]) = 1
    /\ \E i \in 1..Len(revealLog[SdkSlot]) :
          revealLog[SdkSlot][i] = [at |-> "pending", result |-> "CommitRevealViolation"]

\* ------------------------------------------------------------------------
\* C9
\* ------------------------------------------------------------------------

CanonicalCalls ==
    <<"computeCommitment", "commit", "waitForTransactionReceipt", "doObligation",
      "reclaimBond", "requestArbitration">>

IsPrefix(s, t) == Len(s) <= Len(t) /\ \A i \in 1..Len(s) : s[i] = t[i]

\* Unstarted (0), Committed (1), Revealed (2), BondReclaimed (3), by the calls
\* that completed
Phase(done) ==
    IF \E i \in 1..Len(done) : done[i] = "reclaimBond" THEN 3
    ELSE IF \E i \in 1..Len(done) : done[i] = "doObligation" THEN 2
    ELSE IF \E i \in 1..Len(done) : done[i] = "commit" THEN 1
    ELSE 0

\* C9: an attempt only moves forward through Unstarted, Committed, Revealed,
\* BondReclaimed: computeCommitment, commit, doObligation and reclaimBond are
\* called in this order, each at most once, and a step is called only when
\* the one before it completed successfully.
C9_ForwardOnlyAttempt ==
    /\ [](\A a \in Attempts :
            /\ IsPrefix(called[a], CanonicalCalls)
            /\ IsPrefix(completed[a], called[a])
            /\ Len(called[a]) <= Len(completed[a]) + 1
            /\ Len(called[a]) = Len(completed[a]) + 1 => exitStatus[a] = 1)
    /\ [][\A a \in Attempts :
            /\ Phase(completed'[a]) >= Phase(completed[a])
            /\ Phase(completed'[a]) <= Phase(completed[a]) + 1]_vars

C9_Witness ==
    /\ \E a \in Attempts : completed[a] = CanonicalCalls /\ exitStatus[a] = 0
    /\ \E a \in Attempts :
          /\ called[a] = <<"computeCommitment", "commit">>
          /\ completed[a] = <<"computeCommitment">>
          /\ exitStatus[a] = 1

\* ------------------------------------------------------------------------
\* C10
\* ------------------------------------------------------------------------

\* C10: a second reclaimBond for the same fulfillment UID fails (already
\* reclaimed) and pays no second bond back.
C10_SecondReclaimFails ==
    \A s \in Slots :
        /\ bondReleases[s] <= 1
        /\ \A i, j \in 1..Len(reclaimLog[s]) :
              (i < j /\ reclaimLog[s][i] = "ok") => reclaimLog[s][j] = "AlreadyReclaimed"

C10_Witness ==
    /\ reclaimLog[SdkSlot] = <<"ok", "AlreadyReclaimed">>
    /\ bondReleases[SdkSlot] = 1


\* ------------------------------------------------------------------------
\* The LLM client: encoding, provider selection, prompt, verdict, requests
\* ------------------------------------------------------------------------

\* the bytes came from encodeDemand and decodeDemand has run on them
DecodedOwnEncoding == clSource.kind = "demand" /\ clDecoded # NoneRec

\* C11: decoding the bytes that encodeDemand made of a demand returns a demand
\* equal to the original in all four fields
C11_DecodeInvertsEncode ==
    DecodedOwnEncoding =>
        /\ clDecoded.kind = "return"
        /\ clDecoded.value = clSource.demand

\* a demand with a placeholder in its text and a provider name in mixed case
\* has gone through encodeDemand and decodeDemand
C11_Witness ==
    /\ DecodedOwnEncoding
    /\ clSource.demand.demand = ObligationPlaceholder
    /\ clSource.demand.arbitrationProvider = <<"O","p","e","n">>
    /\ clDecoded.kind = "return"

\* decodeDemand has run on bytes that carry a malformed demand
DecodedMalformed ==
    /\ clSource.kind = "demand"
    /\ MalformedDemand(clSource.demand)
    /\ clDecoded # NoneRec

\* C12: decodeDemand rejects a demand whose model holds a NUL character, or
\* whose model or demand text is empty, with MalformedDemand (not DecodeError),
\* and arbitrate is never called with such a demand
C12_MalformedDemandRejected ==
    /\ DecodedMalformed =>
          /\ clDecoded.kind = "throw"
          /\ clDecoded.error = "MalformedDemand"
    /\ (clCall # "idle" /\ clSource.kind = "demand") => ~MalformedDemand(clSource.demand)

\* b is what encodeDemand gives for some demand
ValidEncoding(b) ==
    \E r \in {decodeDemand(b)} : r.kind = "return" /\ encodeDemand(r.value) = b

\* C13: for bytes that are not the encoding of a demand, decodeDemand fails
\* with DecodeError and returns no demand
C13_NonEncodingFailsToDecode ==
    (clDecoded # NoneRec /\ ~ValidEncoding(clData)) =>
        /\ clDecoded.kind = "throw"
        /\ clDecoded.error = "DecodeError"

\* arbitrate has been called (it may still await its backend)
Called == clCall # "idle"

\* text t occurs in text s
Contains(s, t) ==
    \E k \in 0..(Len(s) - Len(t)) : SubSeq(s, k + 1, k + Len(t)) = t

\* the registered providers whose name, in lower case, contains the wanted
\* name in lower case or is contained in it
MatchingIndexes(provs, wanted) ==
    { i \in 1..Len(provs) :
        \/ Contains(toLowerCase(provs[i].providerName), toLowerCase(wanted))
        \/ Contains(toLowerCase(wanted), toLowerCase(provs[i].providerName)) }

\* the earliest registered match, the first registered provider without one
ExpectedProvider(provs, wanted) ==
    LET M == MatchingIndexes(provs, wanted)
    IN  IF M # {} THEN provs[CHOOSE i \in M : \A j \in M : i <= j] ELSE provs[1]

\* C14: arbitrate selects the earliest registered provider whose lower-cased
\* name contains the demand's lower-cased provider name or is contained in it,
\* and the first registered provider when none matches; with OpenAI and
\* Anthropic registered and "openai" wanted it selects OpenAI
C14_FirstMatchingProviderSelected ==
    (Called /\ Len(clProviders) > 0) =>
        /\ clSelected = ExpectedProvider(clProviders, clDecoded.value.arbitrationProvider)
        /\ ( /\ clProviders = <<[providerName |-> OpenAI], [providerName |-> Anthropic]>>
             /\ clDecoded.value.arbitrationProvider = <<"o","p","e","n","a","i">> )
               => clSelected.providerName = OpenAI

\* two registered names match "Open"; the one registered first was selected
C14_Witness ==
    /\ Called
    /\ clProviders = <<[providerName |-> OpenRouter], [providerName |-> OpenAI]>>
    /\ clDecoded.value.arbitrationProvider = <<"O","p","e","n">>
    /\ clSelected.providerName = OpenRouter

\* arbitrate has been called on a client without providers
CalledWithoutProvider == Called /\ Len(clProviders) = 0

\* C15: arbitrate on a client with no registered provider fails with "no
\* provider available": it returns no boolean and sends no backend request
C15_NoProviderNoRequest ==
    CalledWithoutProvider =>
        /\ clCall = "failed"
        /\ clResult.kind = "throw"
        /\ clResult.cause = "No LLM provider available"
        /\ clRequests = <<>>
        /\ clReply = NoneRec

\* a well-formed demand that names OpenAI was arbitrated with no provider
C15_Witness ==
    /\ CalledWithoutProvider
    /\ clDecoded.value.arbitrationProvider = <<"o","p","e","n","a","i">>
    /\ ~MalformedDemand(clDecoded.value)
    /\ clResult.kind = "throw"

\* main run with no OpenAI, Anthropic or OpenRouter key
StartupWithoutKeys ==
    \E envFileOk \in BOOLEAN, rpcUrl \in BOOLEAN, privateKey \in BOOLEAN :
        Startup(envFileOk, rpcUrl, privateKey, {})

\* C16: the oracle does not start without a provider: a start with no API key
\* exits with a non-zero status and creates no subscription, and whenever the
\* oracle listens its provider list is not empty
C16_NoStartWithoutProvider ==
    /\ []((pc = "listening" \/ watching) => Len(providers) > 0)
    /\ [][StartupWithoutKeys => (pc' = "exited" /\ exitCode' > 0 /\ ~watching')]_vars

\* the oracle listens with the Anthropic key as its only key
C16_Witness ==
    /\ pc = "listening"
    /\ watching
    /\ providers = <<[providerName |-> Anthropic]>>

\* one pass over template t from position i: each {{demand}} gives the demand
\* text d, each {{obligation}} the obligation text o, anything else itself
RECURSIVE Substituted(_, _, _, _)
Substituted(t, i, d, o) ==
    IF i > Len(t) THEN <<>>
    ELSE IF SubSeq(t, i, i + Len(DemandPlaceholder) - 1) = DemandPlaceholder
    THEN d \o Substituted(t, i + Len(DemandPlaceholder), d, o)
    ELSE IF SubSeq(t, i, i + Len(ObligationPlaceholder) - 1) = ObligationPlaceholder
    THEN o \o Substituted(t, i + Len(ObligationPlaceholder), d, o)
    ELSE <<t[i]>> \o Substituted(t, i + 1, d, o)

\* C17: the prompt sent to the backend is the template with every {{demand}}
\* replaced by the demand text as it is and every {{obligation}} replaced by
\* the obligation text as it is, in one simultaneous substitution
C17_PromptIsSubstitutedTemplate ==
    clRequests # <<>> =>
        clRequests[1].prompt =
            Substituted(clDecoded.value.arbitrationPrompt, 1,
                        clDecoded.value.demand, clObligation) \o UserPromptTail

\* the replies of ReplyTexts that are "true" once trimmed, lower-cased and
\* freed of tags, fenced blocks and a result: or answer: prefix
TrueReplies ==
    { TrueText,
      <<"T","R","U","E">>,
      <<" "," ","t","r","u","e","\n">>,
      <<"<","a","n","s","w","e","r",">","t","r","u","e","<","/","a","n","s","w","e","r",">">>,
      <<"r","e","s","u","l","t",":"," ","t","r","u","e">>,
      Fence \o Fence \o <<"\n","A","n","s","w","e","r",":"," ","T","r","u","e">> }

\* the backend has answered the call with a text
Replied == clReply # NoneRec /\ clReply.kind = "reply"

FailedBeforeDispatch == clCall = "failed" /\ clReply = NoneRec

C20_PendingCallCompletes ==
    \A u \in Uids :
        (stage[u] = "awaiting") ~> (stage[u] # "awaiting" \/ pc = "exited")

\* ------------------------------------------------------------------------
\* Shutdown, recording, lookup, configuration
\* ------------------------------------------------------------------------

\* the shutdown handler has run
ShutDown == pc = "exited" /\ exitCode = 0

\* C21: the shutdown handler calls unwatch() and exits with status 0 in one
\* go, and while the subscription is released no event is handed to the
\* arbitration callback
C21_ShutdownStopsDispatch ==
    /\ [](ShutDown => ~watching)
    /\ [][Shutdown => (~watching' /\ pc' = "exited" /\ exitCode' = 0)]_vars
    /\ [][~watching => UNCHANGED <<seen, callbackCount, sent>>]_vars

\* the oracle was shut down while an arbitration request was still waiting
\* for its first poll
C21_Witness ==
    /\ ShutDown
    /\ ~watching
    /\ \E u \in Uids : requests[u] > 0 /\ u \notin seen /\ callbackCount[u] = 0

\* C22: shutdown does not cut off work in progress: when the process has
\* ended after a shutdown, no arbitrate call is left in flight with its
\* outcome unhandled
C22_InFlightCallFinishesBeforeExit ==
    ShutDown => \A u \in Uids : stage[u] # "awaiting"

LookedUp == clLookup # NoneRec

\* the registered providers whose name equals the text ignoring case
EqualIndexes(provs, text) ==
    { i \in 1..Len(provs) : toLowerCase(provs[i].providerName) = toLowerCase(text) }

\* C24: getProvider returns the first registered provider whose name equals
\* the argument ignoring case, and missing when there is none, also when the
\* argument is a part of a registered name or contains one
C24_GetProviderIsExactLookup ==
    [][\A providerName \in LookupNames :
          GetProvider(providerName) =>
              LET E == EqualIndexes(clProviders, providerName)
              IN  IF E = {}
                  THEN clLookup'.result = Undefined
                  ELSE clLookup'.result = clProviders[CHOOSE i \in E : \A j \in E : i <= j]]_vars

\* "Open" is a part of the registered names OpenAI and OpenRouter, and
\* getProvider found nothing
C24_Witness ==
    /\ LookedUp
    /\ clLookup.name = <<"O","p","e","n">>
    /\ clProviders = <<[providerName |-> OpenAI], [providerName |-> OpenRouter]>>
    /\ clAdded = clProviders
    /\ clLookup.result = Undefined

\* a step that is a call of addProvider
AddProviderStep == \E name \in ProviderNames : addProvider(name)

\* C30: the provider list only grows at its end: it is the list the client
\* was made with followed by the arguments of the addProvider calls in call
\* order, duplicates kept; getProvider, arbitrate, encodeDemand and
\* decodeDemand leave it as it is, and its first entry never changes
C30_RegistryIsAppendOnly ==
    /\ [](clInitial.made => clProviders = clInitial.list \o clAdded)
    /\ [][(clInitial.made /\ ~AddProviderStep) => UNCHANGED clProviders]_vars
    /\ [][clProviders # <<>> => clProviders'[1] = clProviders[1]]_vars

\* a client made with one provider, the same provider added twice, and
\* getProvider, encodeDemand, decodeDemand and arbitrate all called
C30_Witness ==
    /\ clInitial.made
    /\ clInitial.list # <<>>
    /\ Len(clAdded) = 2
    /\ clAdded[1] = clAdded[2]
    /\ clLookup # NoneRec
    /\ clSource.kind = "demand"
    /\ clDecoded # NoneRec
    /\ clCall = "returned"
    /\ clProviders = clInitial.list \o clAdded

\* a true decision for u is recorded and its escrow still holds the amount
Collectable(u) ==
    /\ requests[u] > 0
    /\ u \notin inFlight
    /\ TRUE \in {decisionsOf[u][i] : i \in 1..Len(decisionsOf[u])}
    /\ escrowed[u] = EscrowAmount

Resolved == cfgStage = "resolved"

\* the .env file has been loaded
Loaded == cfgStage \in {"loaded", "resolved"}

\* the first of the three values that is there at all
FirstPresent(arg, env, file) ==
    IF arg # Unset THEN arg ELSE IF env # Unset THEN env ELSE file

\* the first of the three values that is there and not empty; when there is
\* none the key is missing (undefined or empty)
FirstNonEmpty(arg, env, file) ==
    IF ~falsy(arg) THEN arg ELSE IF ~falsy(env) THEN env ELSE IF ~falsy(file) THEN file
    ELSE Unset

C27_NormalisationIsIdempotent ==
    Replied =>
        \E once \in {cleanBool(clReply.text)} :
            /\ cleanBool(once) = once
            /\ (cleanBool(once) = TrueText) = clResult.value

\* ------------------------------------------------------------------------
\* The older client: a verdict needs a backend reply
\* ------------------------------------------------------------------------

\* an arbitrate call of the older client has ended
LegacyEnded == lgCall \in {"returned", "failed"}

\* the provider the call selected belongs to no backend family
LegacyUnrecognised ==
    /\ lgSelected # Undefined
    /\ backendFamily(lgSelected.providerName) = "unsupported"

\* C28: arbitrate never returns a verdict without a backend reply: a call
\* that returned a boolean got a reply from a backend, and a call whose
\* selected provider belongs to no backend family (its name contains none of
\* openai, anthropic, claude, openrouter) ended in a thrown error, with no
\* request sent, and not in a returned false.
C28_NoVerdictWithoutReply ==
    /\ lgCall = "returned" => (lgReply.kind = "reply" /\ Len(lgRequests) = 1)
    /\ (LegacyEnded /\ LegacyUnrecognised) =>
          (lgCall = "failed" /\ lgResult.kind = "throw" /\ lgRequests = <<>>)

\* ------------------------------------------------------------------------
\* The fulfill flow: a failed step ends the attempt
\* ------------------------------------------------------------------------

\* in this step attempt a made a call that did not complete
FailedStep(a) == called'[a] # called[a] /\ completed'[a] = completed[a]

\* attempt a's process has ended
Exited(a) == exitStatus[a] # -1

\* the calls that come before requestArbitration in main
CallsBeforeRequest == SubSeq(CanonicalCalls, 1, 5)

\* C29: a failed step is fatal to its fulfillment attempt: when
\* computeCommitment, commit, the confirmation wait, doObligation or
\* reclaimBond fails, the process exits with status 1 and no later step is
\* executed; arbitration is requested only after the reveal produced a
\* fulfillment attestation and the bond was reclaimed, and always for that
\* attestation's UID.
C29_FailedStepEndsAttempt ==
    /\ [][\A a \in Attempts :
            FailedStep(a) => (exitStatus'[a] = 1 /\ step'[a] = "Failed")]_vars
    /\ [][\A a \in Attempts :
            Exited(a) => UNCHANGED <<step[a], exitStatus[a], called[a], completed[a],
                                     arbRequested[a]>>]_vars
    /\ [](\A a \in Attempts :
            (called[a] # <<>> /\ called[a][Len(called[a])] = "requestArbitration") =>
                SubSeq(completed[a], 1, 5) = CallsBeforeRequest)
    /\ [](\A a \in Attempts :
            arbRequested[a] # 0 =>
                /\ arbRequested[a] = a
                /\ completed[a] = CanonicalCalls
                /\ exitStatus[a] = 0)

C29_Witness ==
    /\ \E a \in Attempts :
          /\ called[a] = SubSeq(CanonicalCalls, 1, 4)
          /\ completed[a] = SubSeq(CanonicalCalls, 1, 3)
          /\ exitStatus[a] = 1
          /\ arbRequested[a] = 0
    /\ \E a \in Attempts :
          /\ called[a] = SubSeq(CanonicalCalls, 1, 5)
          /\ completed[a] = SubSeq(CanonicalCalls, 1, 4)
          /\ fulfillment[a]
          /\ bond[a] = "held"
          /\ exitStatus[a] = 1

====
